---- MODULE Spec2Model ----
(***************************************************************************)
(* WCLI: an interactive shell that proxies typed lines to one remote host. *)
(* The model follows src/src/main.rs (main, main_loop) and src/src/cmd.rs  *)
(* (cmd, git::run_git, sql::run_sql, test::run_unittests and the helpers). *)
(*                                                                         *)
(* A Rust String is a sequence of one-character strings, so that trim,     *)
(* splitn and format! are computed as the standard library computes them.  *)
(* The call stack is a sequence of frames; a frame's pc is the place in    *)
(* its function where control waits: at a read of standard input, inside   *)
(* a call of run_cmd, or at the use of the Output that run_cmd returned.   *)
(***************************************************************************)
EXTENDS Naturals, Sequences, FiniteSets, TLC

(* ------------------------------ bounds --------------------------------- *)

\* Most frames on the call stack: main_loop plus the mode sessions nested by
\* the recursive `change` of run_git and run_sql.
MaxDepth == 3

\* Largest number of whole seconds test_cmd measures.
MaxSecs == 1

(* ------------------------------ strings -------------------------------- *)

\* char::is_whitespace, restricted to the characters a terminal line holds.
White_Space == {" ", "\t", "\n", "\r"}

RECURSIVE trim_start(_)
\* str::trim_start: drops the leading whitespace characters.
trim_start(s) ==
    IF s # <<>> /\ Head(s) \in White_Space THEN trim_start(Tail(s)) ELSE s

RECURSIVE trim_end(_)
\* str::trim_end: drops the trailing whitespace characters.
trim_end(s) ==
    IF s # <<>> /\ s[Len(s)] \in White_Space
    THEN trim_end(SubSeq(s, 1, Len(s) - 1))
    ELSE s

\* str::trim, as called on every matched line.
trim(s) == trim_end(trim_start(s))

\* The first piece taken to be the whole line, as run_git and run_sql match.
splitn_first_whole_line(s) == s

RECURSIVE splitn_first(_)
\* bash_cmd.splitn(2, ' ').next(): the text before the first space character,
\* the whole string when it holds no space.
splitn_first(s) ==
    IF s = <<>> \/ Head(s) = " " THEN <<>> ELSE <<Head(s)>> \o splitn_first(Tail(s))

\* String::from_utf8_lossy: every invalid byte becomes U+FFFD. The token
\* "xFF" stands for a byte that is not valid UTF-8.
from_utf8_lossy(bytes) ==
    [i \in 1..Len(bytes) |-> IF bytes[i] = "xFF" THEN "uFFFD" ELSE bytes[i]]

(* --------------------------- configuration ----------------------------- *)

\* PASS, the secret build.rs bakes in; main passes it on as `password`.
PASS == {<<"p","w">>, <<"s","3">>}

(* --------------------------- the environment --------------------------- *)

\* Lines the operator types at a loop prompt, without the line terminator.
Lines ==
    { <<"c","m","d">>, <<"g","i","t">>, <<"s","q","l">>, <<"t","e","s","t">>, <<"c","l","e","a","r">>, <<"h","e","l","p">>, <<"e","x","i","t">>,
      <<" ","g","i","t"," ">>, <<"l","s"," ","-","l">>, <<" "," ","l","s"," ","-","l"," ">>, <<>>,
      <<"s","u","d","o"," ","y","u","m"," ","i","n","s","t","a","l","l"," ","-","y"," ","t","r","e","e">>, <<"s","u","d","o"," ","l","s">>, <<" ","s","u","d","o"," ","l","s">>, <<"s","u","d","o","\t","l","s">>,
      <<"s","u","d","o">>, <<"i","n","s","t","a","l","l">>, <<"r","e","m","o","v","e">>, <<"e","x","i","t"," ","0">>, <<"h","e","l","p"," ","m","e">>, <<"\t","e","x","i","t">>,
      <<" ","e","x","i","t">>, <<"c","h","a","n","g","e">>, <<"c","h","a","n","g","e"," ","x">>, <<"d","a","t","a","b","a","s","e">>, <<"s","t","a","t","u","s">>,
      <<"S","E","L","E","C","T"," ","1",";">>, <<"e","c","h","o"," ","s","3">> }

\* Lines that may be the last of the input, ended by end of file and not by
\* a line terminator.
LastLines == {<<"e","x","i","t">>, <<"s","t","a","t","u","s">>, <<"s","u","d","o"," ","y","u","m"," ","i","n","s","t","a","l","l"," ","-","y"," ","t","r","e","e">>}

\* Values the operator types at a msg_input prompt.
Answers == {<<"p","r","o","j","/","r","e","p","o">>, <<"m","y","d","b">>, <<" ","d","2"," ">>}

\* What Command::output returns: the exit status, stdout and stderr.
Outputs ==
    { [success |-> TRUE,  stdout |-> <<"f","i","l","e",".","t","x","t">>,   stderr |-> <<>>],
      [success |-> TRUE,  stdout |-> <<"o", "xFF">>, stderr |-> <<"w","a","r","n">>],
      [success |-> FALSE, stdout |-> <<>>,           stderr |-> <<"e","r","r">>],
      [success |-> FALSE, stdout |-> <<"p","a","r","t">>,       stderr |-> <<>>] }

\* The Output of the local `clear` command.
ClearOutputs ==
    { [success |-> TRUE,  stdout |-> <<"ESC[H">>, stderr |-> <<>>],
      [success |-> FALSE, stdout |-> <<>>, stderr |-> <<"T","E","R","M">>] }

\* The value of `output` before any command ran.
NoOutput == [success |-> TRUE, stdout |-> <<>>, stderr |-> <<>>]

(* ------------------------------- state --------------------------------- *)

VARIABLES
    password,   \* main: the secret, PASS.to_string()
    stack,      \* the call stack, innermost frame last
    status,     \* "running", "exited" (process::exit) or "panicked"
    exit_code,  \* the process's exit status once it ended, 0 before
    panic_msg,  \* the message of the panic that ended the process
    eof,        \* standard input is exhausted
    line,       \* the String the most recent read_line filled
    readBy,     \* the function whose prompt that line was read at
    bash_cmd,   \* the argument of run_cmd in the current loop iteration
    output,     \* the Output run_cmd returned in the current loop iteration
    printed     \* what the most recent step wrote with println!

vars ==
    <<password, stack, status, exit_code, panic_msg, eof, line, readBy,
      bash_cmd, output, printed>>

\* A stack frame: the function, the place in it, the match arm or call whose
\* run_cmd is under way, and the function's local Strings.
Frame(fn, pc, arm) ==
    [fn |-> fn, pc |-> pc, arm |-> arm,
     directory |-> <<>>, database |-> <<>>, venv |-> <<>>, tests |-> <<>>]

Top == stack[Len(stack)]

SetTop(f) == [stack EXCEPT ![Len(stack)] = f]

Push(f) == Append(stack, f)

\* `exit` unwinding every open session at once.
Pop_to_main_loop == <<stack[1]>>

\* A function returns: its frame goes, the caller's loop reads its next line.
Pop == SubSeq(stack, 1, Len(stack) - 1)

At(fn, pc) == status = "running" /\ Top.fn = fn /\ Top.pc = pc

\* io::stdin().read_line returning Ok: a whole line of S with its terminator,
\* a last line that end of file cut short, or nothing at end of file (Ok(0)).
read_line(S) ==
    IF eof
    THEN {[line |-> <<>>, eof |-> TRUE]}
    ELSE {[line |-> l \o <<"\n">>, eof |-> FALSE] : l \in S}
         \cup {[line |-> l, eof |-> TRUE] : l \in S \cap LastLines}
         \cup {[line |-> <<>>, eof |-> TRUE]}

\* A loop iteration or prompt that calls run_cmd nowhere: the iteration before
\* it has ended, and its command and Output went out of scope with it.
no_run_cmd == bash_cmd' = <<>> /\ output' = NoOutput

\* A panic unwinds main: the process ends with status 101.
panic(msg) ==
    /\ status' = "panicked"
    /\ panic_msg' = msg
    /\ exit_code' = 101

(* -------------------------- command builders --------------------------- *)

\* run_cmd_sudo: format!("echo {password} | {sudo_cmd}").
run_cmd_sudo(sudo_cmd, pw) == <<"e","c","h","o"," ">> \o pw \o <<" ","|"," ">> \o sudo_cmd

\* install: format!("echo {password} | sudo yum install -y {package}").
install_cmd(pw, package) ==
    <<"e","c","h","o"," ">> \o pw \o <<" ","|"," ","s","u","d","o"," ","y","u","m"," ","i","n","s","t","a","l","l"," ","-","y"," ">> \o package

\* remove: format!("echo {password} | sudo yum remove -y {package}").
remove_cmd(pw, package) ==
    <<"e","c","h","o"," ">> \o pw \o <<" ","|"," ","s","u","d","o"," ","y","u","m"," ","r","e","m","o","v","e"," ","-","y"," ">> \o package

\* git_cmd piping the secret into the command, as run_cmd_sudo does.
git_cmd_with_secret(directory, user_cmd) ==
    <<"e","c","h","o"," ">> \o password \o <<" ","|"," ","c","d"," ">> \o directory \o <<" ","&","&"," ">> \o user_cmd

\* git_cmd: format!("cd {directory} && {user_cmd}").
git_cmd(directory, user_cmd) == <<"c","d"," ">> \o directory \o <<" ","&","&"," ">> \o user_cmd

\* sql_query with the database selection left out of the client's statement.
sql_query_without_use(pw, database, query) ==
    <<"e","c","h","o"," ">> \o pw \o <<" ","|"," ","s","u","d","o"," ","-","S"," ","m","a","r","i","a","d","b"," ","-","u"," ","r","o","o","t"," ","-","p"," ","-","e"," ","\"">> \o query \o <<"\"">>

\* sql_query: format!("echo {password} | sudo -S mariadb -u root -p -e
\* \"USE {database}; {query}\"").
sql_query(pw, database, query) ==
    <<"e","c","h","o"," ">> \o pw \o <<" ","|"," ","s","u","d","o"," ","-","S"," ","m","a","r","i","a","d","b"," ","-","u"," ","r","o","o","t"," ","-","p"," ","-","e"," ","\"","U","S","E"," ">> \o database
        \o <<";"," ">> \o query \o <<"\"">>

\* test_sql_connection: format!("echo {password} | sudo -S mariadb -u root -p").
test_sql_connection_cmd(pw) ==
    <<"e","c","h","o"," ">> \o pw \o <<" ","|"," ","s","u","d","o"," ","-","S"," ","m","a","r","i","a","d","b"," ","-","u"," ","r","o","o","t"," ","-","p">>

\* run_unittests: format!("cd {} && source {}/bin/activate && python3 -m
\* unittest discover {}", directory.trim(), venv.trim(), tests.trim()).
run_unittests_cmd(directory, venv, tests) ==
    <<"c","d"," ">> \o trim(directory) \o <<" ","&","&"," ","s","o","u","r","c","e"," ">> \o trim(venv)
        \o <<"/","b","i","n","/","a","c","t","i","v","a","t","e"," ","&","&"," ","p","y","t","h","o","n","3"," ","-","m"," ","u","n","i","t","t","e","s","t"," ","d","i","s","c","o","v","e","r"," ">> \o trim(tests)

(* ----------------------------- the matches ----------------------------- *)

\* The match of main_loop with its `_` arm falling through to shell mode.
main_loop_match_falls_to_cmd(prompt) ==
    CASE prompt = <<"g","i","t">> -> "git"
      [] prompt = <<"s","q","l">> -> "sql"
      [] prompt = <<"t","e","s","t">> -> "test"
      [] prompt = <<"c","l","e","a","r">> -> "clear"
      [] prompt = <<"h","e","l","p">> -> "help"
      [] prompt = <<"e","x","i","t">> -> "exit"
      [] OTHER -> "cmd"

\* The match of main_loop without its `exit` arm.
main_loop_match_without_exit(prompt) ==
    CASE prompt = <<"c","m","d">> -> "cmd"
      [] prompt = <<"g","i","t">> -> "git"
      [] prompt = <<"s","q","l">> -> "sql"
      [] prompt = <<"t","e","s","t">> -> "test"
      [] prompt = <<"c","l","e","a","r">> -> "clear"
      [] prompt = <<"h","e","l","p">> -> "help"
      [] OTHER -> "_"

\* main_loop: match prompt { ... }.
main_loop_match(prompt) ==
    CASE prompt = <<"c","m","d">> -> "cmd"
      [] prompt = <<"g","i","t">> -> "git"
      [] prompt = <<"s","q","l">> -> "sql"
      [] prompt = <<"t","e","s","t">> -> "test"
      [] prompt = <<"c","l","e","a","r">> -> "clear"
      [] prompt = <<"h","e","l","p">> -> "help"
      [] prompt = <<"e","x","i","t">> -> "exit"
      [] OTHER -> "_"

\* cmd: match first.trim() { ... }.
cmd_match(first) ==
    CASE first = <<"s","u","d","o">> -> "sudo"
      [] first = <<"i","n","s","t","a","l","l">> -> "install"
      [] first = <<"r","e","m","o","v","e">> -> "remove"
      [] first = <<"c","l","e","a","r">> -> "clear"
      [] first = <<"h","e","l","p">> -> "help"
      [] first = <<"e","x","i","t">> -> "exit"
      [] OTHER -> "_"

\* The match of run_git with `clear` breaking the loop as `exit` does.
run_git_match_clear_breaks(user_cmd) ==
    CASE user_cmd = <<"e","x","i","t">> -> "exit"
      [] user_cmd = <<"c","h","a","n","g","e">> -> "change"
      [] user_cmd = <<"c","l","e","a","r">> -> "exit"
      [] user_cmd = <<"h","e","l","p">> -> "help"
      [] OTHER -> "_"

\* run_git: match user_cmd.trim() { ... }.
run_git_match(user_cmd) ==
    CASE user_cmd = <<"e","x","i","t">> -> "exit"
      [] user_cmd = <<"c","h","a","n","g","e">> -> "change"
      [] user_cmd = <<"c","l","e","a","r">> -> "clear"
      [] user_cmd = <<"h","e","l","p">> -> "help"
      [] OTHER -> "_"

\* run_sql: match query.trim() { ... }.
run_sql_match(query) ==
    CASE query = <<"e","x","i","t">> -> "exit"
      [] query = <<"d","a","t","a","b","a","s","e">> -> "database"
      [] query = <<"c","h","a","n","g","e">> -> "change"
      [] query = <<"c","l","e","a","r">> -> "clear"
      [] query = <<"h","e","l","p">> -> "help"
      [] OTHER -> "_"

\* print_cmd choosing stdout whatever the exit status.
print_cmd_text_stdout_always(o) == from_utf8_lossy(o.stdout)

\* helpers::print_cmd: stdout of a successful Output, stderr of a failed one.
print_cmd_text(o) ==
    IF o.success THEN from_utf8_lossy(o.stdout) ELSE from_utf8_lossy(o.stderr)

\* The `_` arm with trim_start in place of trim.
plain_cmd_trim_start(bash_cmd_) == trim_start(bash_cmd_)

\* cmd, the `_` arm: run_cmd(bash_cmd.trim()).
plain_cmd(bash_cmd_) == trim(bash_cmd_)

\* connect::test_connection: run_cmd("echo test").
test_connection_cmd == <<"e","c","h","o"," ","t","e","s","t">>

(* ------------------------------- startup ------------------------------- *)

Init ==
    /\ password \in PASS
    /\ stack = <<Frame("main", "start", "")>>
    /\ status = "running"
    /\ exit_code = 0
    /\ panic_msg = ""
    /\ eof = FALSE
    /\ line = <<>>
    /\ readBy = "none"
    /\ bash_cmd = <<>>
    /\ output = NoOutput
    /\ printed = <<>>

\* main: prints the banner and calls connect::test_connection, whose first
\* statement is run_cmd("echo test").
main ==
    /\ At("main", "start")
    /\ printed' = << <<"Welcome to WCLI">> >>
    /\ bash_cmd' = test_connection_cmd
    /\ stack' = SetTop(Frame("main", "run_cmd", "test_connection"))
    /\ UNCHANGED <<password, status, exit_code, panic_msg, eof, line, readBy,
                   output>>

\* run_cmd running a failed command again.
run_cmd_retries ==
    \/ /\ status = "running" /\ Top.pc = "run_cmd"
       /\ panic("failed to execute remote command")
       /\ printed' = <<>>
       /\ UNCHANGED <<password, stack, eof, line, readBy, bash_cmd, output>>
    \/ /\ status = "running" /\ Top.pc = "run_cmd"
       /\ \E o \in Outputs :
           /\ output' = o
           /\ stack' = IF o.success THEN SetTop([Top EXCEPT !.pc = "output"])
                                    ELSE stack
       /\ printed' = <<>>
       /\ UNCHANGED <<password, status, exit_code, panic_msg, eof, line,
                      readBy, bash_cmd>>

\* run_cmd: spawns `bash -c ssh ...` and waits for its Output; a spawn that
\* fails panics through expect.
run_cmd ==
    \/ /\ status = "running" /\ Top.pc = "run_cmd"
       /\ panic("failed to execute remote command")
       /\ printed' = <<>>
       /\ UNCHANGED <<password, stack, eof, line, readBy, bash_cmd, output>>
    \/ /\ status = "running" /\ Top.pc = "run_cmd"
       /\ \E o \in Outputs : output' = o
       /\ stack' = SetTop([Top EXCEPT !.pc = "output"])
       /\ printed' = <<>>
       /\ UNCHANGED <<password, status, exit_code, panic_msg, eof, line,
                      readBy, bash_cmd>>

\* test_connection reporting a failed echo and going on to main_loop.
test_connection_goes_on ==
    \/ /\ At("main", "output")
       /\ panic("unable to get time")
       /\ printed' = <<>>
       /\ UNCHANGED <<password, stack, eof, line, readBy, bash_cmd, output>>
    \/ /\ At("main", "output")
       /\ printed' = IF output.success THEN << <<"Connected to EC2">> >>
                                       ELSE << <<"unable to connect to EC2">> >>
       /\ stack' = <<Frame("main_loop", "input", "")>>
       /\ UNCHANGED <<password, status, exit_code, panic_msg, eof, line,
                      readBy, bash_cmd, output>>

\* connect::test_connection, after run_cmd returned: main_loop starts only
\* when the remote echo succeeded.
test_connection ==
    \/ /\ At("main", "output")
       /\ panic("unable to get time")
       /\ printed' = <<>>
       /\ UNCHANGED <<password, stack, eof, line, readBy, bash_cmd, output>>
    \/ /\ At("main", "output")
       /\ output.success
       /\ printed' = << <<"Connected to EC2">> >>
       /\ stack' = <<Frame("main_loop", "input", "")>>
       /\ UNCHANGED <<password, status, exit_code, panic_msg, eof, line,
                      readBy, bash_cmd, output>>
    \/ /\ At("main", "output")
       /\ ~output.success
       /\ panic("unable to connect to EC2")
       /\ printed' = <<>>
       /\ UNCHANGED <<password, stack, eof, line, readBy, bash_cmd, output>>

\* read_line returning Err under expect, at any prompt: the process panics.
\* main_loop's message differs from the one of input and msg_input.
read_line_Err ==
    /\ status = "running"
    /\ Top.pc \in {"input", "msg_input", "directory", "venv", "tests"}
    /\ panic(IF Top.fn = "main_loop" THEN "failed to read line"
                                     ELSE "failed to read input")
    /\ line' = <<>>
    /\ readBy' = Top.fn
    /\ printed' = <<>>
    /\ UNCHANGED <<password, stack, eof, bash_cmd, output>>

\* helpers::clear, called from a loop: spawns the local `clear` and prints
\* its Output with print_cmd; a spawn that fails panics through expect.
clear ==
    /\ \/ /\ panic("command was not executed")
          /\ printed' = <<>>
       \/ /\ \E o \in ClearOutputs : printed' = <<print_cmd_text(o)>>
          /\ UNCHANGED <<status, exit_code, panic_msg>>
    /\ UNCHANGED stack /\ no_run_cmd

\* run_sql entered without its self-test: the Database prompt comes first.
call_run_sql_without_test ==
    /\ stack' = Push(Frame("run_sql", "msg_input", ""))
    /\ printed' = <<>>
    /\ UNCHANGED <<status, exit_code, panic_msg>> /\ no_run_cmd

\* sql::run_sql is called: its first statement is test_sql_connection, whose
\* first statement is run_cmd of the self-test command.
call_run_sql ==
    /\ stack' = Push(Frame("run_sql", "run_cmd", "test_sql_connection"))
    /\ bash_cmd' = test_sql_connection_cmd(password)
    /\ printed' = <<>>
    /\ UNCHANGED <<status, exit_code, panic_msg>> /\ output' = NoOutput

\* run_git entered with the directory of the caller, and without a prompt.
call_run_git_keeps_directory ==
    /\ stack' = Push([Frame("run_git", "input", "")
                         EXCEPT !.directory = Top.directory])
    /\ printed' = <<>>
    /\ UNCHANGED <<status, exit_code, panic_msg>> /\ no_run_cmd

\* git::run_git is called: its first statement is msg_input("Repo path").
call_run_git ==
    /\ stack' = Push(Frame("run_git", "msg_input", ""))
    /\ printed' = <<>>
    /\ UNCHANGED <<status, exit_code, panic_msg>> /\ no_run_cmd

(* --------------------------- top-level loop ---------------------------- *)

\* main_loop: one iteration, from read_line to the end of the match arm or to
\* the first blocking call of the mode it enters.
main_loop ==
    /\ At("main_loop", "input")
    /\ \E r \in read_line(Lines) :
        /\ line' = r.line
        /\ eof' = r.eof
        /\ readBy' = "main_loop"
        /\ LET arm == main_loop_match(trim(r.line)) IN
            \/ /\ arm = "cmd"
               /\ stack' = Push(Frame("cmd", "input", ""))
               /\ printed' = << <<"Run 'help' for commands">> >>
               /\ UNCHANGED <<status, exit_code, panic_msg>> /\ no_run_cmd
            \/ /\ arm = "git"
               /\ call_run_git
            \/ /\ arm = "sql"
               /\ call_run_sql
            \/ /\ arm = "test"
               /\ stack' = Push(Frame("run_unittests", "directory", ""))
               /\ printed' = <<>>
               /\ UNCHANGED <<status, exit_code, panic_msg>> /\ no_run_cmd
            \/ /\ arm = "clear"
               /\ clear
            \/ /\ arm = "help"
               /\ printed' = << <<"helpers::help">> >>
               /\ UNCHANGED <<stack, status, exit_code, panic_msg>> /\ no_run_cmd
            \/ /\ arm = "exit"
               /\ status' = "exited"
               /\ exit_code' = 1
               /\ printed' = <<>>
               /\ UNCHANGED <<stack, panic_msg>> /\ no_run_cmd
            \/ /\ arm = "_"
               /\ printed' = << <<"invalid command, run 'help' for commands">> >>
               /\ UNCHANGED <<stack, status, exit_code, panic_msg>> /\ no_run_cmd
    /\ UNCHANGED password

(* ----------------------------- shell mode ------------------------------ *)

\* cmd: one iteration of its loop, from input() to the end of the match arm
\* or to the arm's first blocking call.
cmd ==
    /\ At("cmd", "input")
    /\ \E r \in read_line(Lines) :
        /\ line' = r.line
        /\ eof' = r.eof
        /\ readBy' = "cmd"
        /\ LET arm == cmd_match(trim(splitn_first(r.line))) IN
            \/ /\ arm = "sudo"
               /\ bash_cmd' = run_cmd_sudo(r.line, password)
               /\ stack' = SetTop([Top EXCEPT !.pc = "run_cmd", !.arm = "sudo"])
               /\ printed' = <<>>
               /\ UNCHANGED <<status, exit_code, panic_msg>> /\ output' = NoOutput
            \/ /\ arm \in {"install", "remove"}
               /\ stack' = SetTop([Top EXCEPT !.pc = "msg_input", !.arm = arm])
               /\ printed' = <<>>
               /\ UNCHANGED <<status, exit_code, panic_msg>> /\ no_run_cmd
            \/ /\ arm = "clear"
               /\ clear
            \/ /\ arm = "help"
               /\ printed' = << <<"cmd_help">> >>
               /\ UNCHANGED <<stack, status, exit_code, panic_msg>> /\ no_run_cmd
            \/ /\ arm = "exit"
               /\ stack' = Pop
               /\ printed' = <<>>
               /\ UNCHANGED <<status, exit_code, panic_msg>> /\ no_run_cmd
            \/ /\ arm = "_"
               /\ bash_cmd' = plain_cmd(r.line)
               /\ stack' = SetTop([Top EXCEPT !.pc = "run_cmd", !.arm = "plain"])
               /\ printed' = <<>>
               /\ UNCHANGED <<status, exit_code, panic_msg>> /\ output' = NoOutput
    /\ UNCHANGED password

\* install: msg_input("Package"), then run_cmd of the yum install command.
install ==
    /\ At("cmd", "msg_input")
    /\ Top.arm = "install"
    /\ \E r \in read_line(Answers) :
        /\ line' = r.line
        /\ eof' = r.eof
        /\ bash_cmd' = install_cmd(password, r.line)
    /\ readBy' = "msg_input"
    /\ stack' = SetTop([Top EXCEPT !.pc = "run_cmd"])
    /\ printed' = <<>>
    /\ UNCHANGED <<password, status, exit_code, panic_msg>> /\ output' = NoOutput

\* remove: msg_input("Package"), then run_cmd of the yum remove command.
remove ==
    /\ At("cmd", "msg_input")
    /\ Top.arm = "remove"
    /\ \E r \in read_line(Answers) :
        /\ line' = r.line
        /\ eof' = r.eof
        /\ bash_cmd' = remove_cmd(password, r.line)
    /\ readBy' = "msg_input"
    /\ stack' = SetTop([Top EXCEPT !.pc = "run_cmd"])
    /\ printed' = <<>>
    /\ UNCHANGED <<password, status, exit_code, panic_msg>> /\ output' = NoOutput

\* The match arms and calls that hand run_cmd's Output to helpers::print_cmd.
PrintArms == {"sudo", "plain", "install", "remove", "git_cmd", "sql_query"}

\* print_cmd treating a failed Output as test_connection does: it panics.
print_cmd_panics_on_failure ==
    \/ /\ status = "running"
       /\ Top.pc = "output"
       /\ Top.arm \in PrintArms
       /\ output.success
       /\ printed' = <<from_utf8_lossy(output.stdout)>>
       /\ stack' = SetTop([Top EXCEPT !.pc = "input", !.arm = ""])
       /\ UNCHANGED <<password, status, exit_code, panic_msg, eof, line,
                      readBy, bash_cmd, output>>
    \/ /\ status = "running"
       /\ Top.pc = "output"
       /\ Top.arm \in PrintArms
       /\ ~output.success
       /\ panic("remote command failed")
       /\ printed' = <<from_utf8_lossy(output.stderr)>>
       /\ UNCHANGED <<password, stack, eof, line, readBy, bash_cmd, output>>

\* helpers::print_cmd, after run_cmd returned to cmd, install, remove,
\* git_cmd or sql_query: prints, and the loop reads its next line.
print_cmd ==
    /\ status = "running"
    /\ Top.pc = "output"
    /\ Top.arm \in PrintArms
    /\ printed' = <<print_cmd_text(output)>>
    /\ stack' = SetTop([Top EXCEPT !.pc = "input", !.arm = ""])
    /\ UNCHANGED <<password, status, exit_code, panic_msg, eof, line, readBy,
                   bash_cmd, output>>

(* ------------------------------ git mode ------------------------------- *)

\* git::run_git, before its loop: msg_input("Repo path") fills `directory`.
run_git ==
    /\ At("run_git", "msg_input")
    /\ \E r \in read_line(Answers) :
        /\ line' = r.line
        /\ eof' = r.eof
        /\ stack' = SetTop([Top EXCEPT !.pc = "input", !.directory = r.line])
    /\ readBy' = "msg_input"
    /\ printed' = << <<"Run 'help' for commands">> >>
    /\ UNCHANGED <<password, status, exit_code, panic_msg>> /\ no_run_cmd

\* git::run_git: one iteration of its loop. `change` calls run_git again, on
\* top of this frame; the `_` arm calls git_cmd, which calls run_cmd.
run_git_loop ==
    /\ At("run_git", "input")
    /\ \E r \in read_line(Lines) :
        /\ line' = r.line
        /\ eof' = r.eof
        /\ readBy' = "run_git"
        /\ LET arm == run_git_match(trim(r.line)) IN
            \/ /\ arm = "exit"
               /\ stack' = Pop
               /\ printed' = <<>>
               /\ UNCHANGED <<status, exit_code, panic_msg>> /\ no_run_cmd
            \/ /\ arm = "change"
               /\ Len(stack) < MaxDepth
               /\ call_run_git
            \/ /\ arm = "clear"
               /\ clear
            \/ /\ arm = "help"
               /\ printed' = << <<"git_help">> >>
               /\ UNCHANGED <<stack, status, exit_code, panic_msg>> /\ no_run_cmd
            \/ /\ arm = "_"
               /\ bash_cmd' = git_cmd(trim(Top.directory), r.line)
               /\ stack' = SetTop([Top EXCEPT !.pc = "run_cmd", !.arm = "git_cmd"])
               /\ printed' = <<>>
               /\ UNCHANGED <<status, exit_code, panic_msg>> /\ output' = NoOutput
    /\ UNCHANGED password

(* ------------------------------ sql mode ------------------------------- *)

\* sql::test_sql_connection, after run_cmd returned: run_sql goes on to its
\* Database prompt only when the self-test succeeded.
test_sql_connection ==
    \/ /\ At("run_sql", "output")
       /\ Top.arm = "test_sql_connection"
       /\ panic("unable to get time")
       /\ printed' = <<>>
       /\ UNCHANGED <<password, stack, eof, line, readBy, bash_cmd, output>>
    \/ /\ At("run_sql", "output")
       /\ Top.arm = "test_sql_connection"
       /\ output.success
       /\ printed' = << <<"Connected to mariadb">> >>
       /\ stack' = SetTop([Top EXCEPT !.pc = "msg_input", !.arm = ""])
       /\ UNCHANGED <<password, status, exit_code, panic_msg, eof, line,
                      readBy, bash_cmd, output>>
    \/ /\ At("run_sql", "output")
       /\ Top.arm = "test_sql_connection"
       /\ ~output.success
       /\ panic("unable to connect to mariadb")
       /\ printed' = <<>>
       /\ UNCHANGED <<password, stack, eof, line, readBy, bash_cmd, output>>

\* sql::run_sql, before its loop: msg_input("Database") fills `database`.
run_sql ==
    /\ At("run_sql", "msg_input")
    /\ \E r \in read_line(Answers) :
        /\ line' = r.line
        /\ eof' = r.eof
        /\ stack' = SetTop([Top EXCEPT !.pc = "input", !.database = r.line])
    /\ readBy' = "msg_input"
    /\ printed' = << <<"Run 'help' for commands">> >>
    /\ UNCHANGED <<password, status, exit_code, panic_msg>> /\ no_run_cmd

\* sql::run_sql: one iteration of its loop. `change` calls run_sql again, on
\* top of this frame; the `_` arm calls sql_query, which calls run_cmd.
run_sql_loop ==
    /\ At("run_sql", "input")
    /\ \E r \in read_line(Lines) :
        /\ line' = r.line
        /\ eof' = r.eof
        /\ readBy' = "run_sql"
        /\ LET arm == run_sql_match(trim(r.line)) IN
            \/ /\ arm = "exit"
               /\ stack' = Pop
               /\ printed' = <<>>
               /\ UNCHANGED <<status, exit_code, panic_msg>> /\ no_run_cmd
            \/ /\ arm = "database"
               /\ printed' = << <<"I","n"," ","d","a","t","a","b","a","s","e",":"," ">> \o Top.database >>
               /\ UNCHANGED <<stack, status, exit_code, panic_msg>> /\ no_run_cmd
            \/ /\ arm = "change"
               /\ Len(stack) < MaxDepth
               /\ call_run_sql
            \/ /\ arm = "clear"
               /\ clear
            \/ /\ arm = "help"
               /\ printed' = << <<"sql_help">> >>
               /\ UNCHANGED <<stack, status, exit_code, panic_msg>> /\ no_run_cmd
            \/ /\ arm = "_"
               /\ bash_cmd' = sql_query(password, trim(Top.database), trim(r.line))
               /\ stack' = SetTop([Top EXCEPT !.pc = "run_cmd", !.arm = "sql_query"])
               /\ printed' = <<>>
               /\ UNCHANGED <<status, exit_code, panic_msg>> /\ output' = NoOutput
    /\ UNCHANGED password

(* ------------------------------ test mode ------------------------------ *)

\* test::run_unittests: its three msg_input prompts in turn; after the third
\* it calls test_cmd, whose first call is run_cmd of the built command.
run_unittests ==
    \/ /\ At("run_unittests", "directory")
       /\ \E r \in read_line(Answers) :
           /\ line' = r.line
           /\ eof' = r.eof
           /\ stack' = SetTop([Top EXCEPT !.pc = "venv", !.directory = r.line])
       /\ readBy' = "msg_input"
       /\ printed' = <<>>
       /\ UNCHANGED <<password, status, exit_code, panic_msg>> /\ no_run_cmd
    \/ /\ At("run_unittests", "venv")
       /\ \E r \in read_line(Answers) :
           /\ line' = r.line
           /\ eof' = r.eof
           /\ stack' = SetTop([Top EXCEPT !.pc = "tests", !.venv = r.line])
       /\ readBy' = "msg_input"
       /\ printed' = <<>>
       /\ UNCHANGED <<password, status, exit_code, panic_msg>> /\ no_run_cmd
    \/ /\ At("run_unittests", "tests")
       /\ \E r \in read_line(Answers) :
           /\ line' = r.line
           /\ eof' = r.eof
           /\ stack' = SetTop([Top EXCEPT !.pc = "run_cmd", !.arm = "test_cmd",
                                          !.tests = r.line])
           /\ bash_cmd' = run_unittests_cmd(Top.directory, Top.venv, r.line)
       /\ readBy' = "msg_input"
       /\ printed' = <<>>
       /\ UNCHANGED <<password, status, exit_code, panic_msg>> /\ output' = NoOutput

\* test_cmd printing both captured streams after the verdict.
test_cmd_prints_both_streams ==
    /\ At("run_unittests", "output")
    /\ \E elapsed \in 0..MaxSecs :
        printed' =
            << <<IF output.success THEN "All tests passed in "
                                   ELSE "Tests failed after ",
                 ToString(elapsed), "s">>,
               from_utf8_lossy(output.stdout),
               from_utf8_lossy(output.stderr) >>
    /\ stack' = Pop
    /\ UNCHANGED <<password, status, exit_code, panic_msg, eof, line, readBy,
                   bash_cmd, output>>

\* test::test_cmd, after run_cmd returned: prints the verdict with the whole
\* seconds measured and one of the two streams; run_unittests then returns.
test_cmd ==
    /\ At("run_unittests", "output")
    /\ \E elapsed \in 0..MaxSecs :
        printed' =
            IF output.success
            THEN << <<"All tests passed in ", ToString(elapsed), "s">>,
                    from_utf8_lossy(output.stdout) >>
            ELSE << <<"Tests failed after ", ToString(elapsed), "s">>,
                    from_utf8_lossy(output.stderr) >>
    /\ stack' = Pop
    /\ UNCHANGED <<password, status, exit_code, panic_msg, eof, line, readBy,
                   bash_cmd, output>>

(* --------------------------- the whole program ------------------------- *)

Next ==
    \/ main
    \/ run_cmd
    \/ test_connection
    \/ read_line_Err
    \/ main_loop
    \/ cmd
    \/ install
    \/ remove
    \/ print_cmd
    \/ run_git
    \/ run_git_loop
    \/ test_sql_connection
    \/ run_sql
    \/ run_sql_loop
    \/ run_unittests
    \/ test_cmd

Spec == Init /\ [][Next]_vars

(* ------------------- vocabulary of the properties ---------------------- *)

\* The characters a claim calls whitespace.
Blank == {" ", "\t", "\n", "\r"}

\* The places of s that hold no whitespace.
Inked(s) == {i \in 1..Len(s) : s[i] \notin Blank}

\* s with its leading and trailing whitespace removed, and otherwise
\* unchanged: what lies between the first and the last inked place.
Stripped(s) ==
    IF Inked(s) = {} THEN <<>>
    ELSE LET a == CHOOSE i \in Inked(s) : \A j \in Inked(s) : i <= j
             b == CHOOSE i \in Inked(s) : \A j \in Inked(s) : j <= i
         IN  SubSeq(s, a, b)

\* The first whitespace-delimited token of s.
FirstToken(s) ==
    IF Inked(s) = {} THEN <<>>
    ELSE LET a == CHOOSE i \in Inked(s) : \A j \in Inked(s) : i <= j
             ends == {j \in a..Len(s) : j = Len(s) \/ s[j + 1] \in Blank}
             b == CHOOSE i \in ends : \A j \in ends : i <= j
         IN  SubSeq(s, a, b)

\* The line as the operator typed it: the String read_line filled, without
\* the line terminator that the Enter key added.
Typed(l) ==
    IF l # <<>> /\ l[Len(l)] = "\n" THEN SubSeq(l, 1, Len(l) - 1) ELSE l

\* A step in which the loop of function fn read a line (read_line returned
\* Ok) and dispatched it.
Dispatches(fn) ==
    /\ At(fn, "input")
    /\ ~(status' = "panicked"
         /\ panic_msg' \in {"failed to read line", "failed to read input"})

(* ------------------------------- C1 ------------------------------------ *)

\* C1: in shell mode, for every secret and every line run as a `sudo` line,
\* the command handed to run_cmd is exactly `echo <secret> | <typed line>`,
\* and nothing follows the typed command; `sudo yum install -y tree` with
\* secret `pw` yields exactly `echo pw | sudo yum install -y tree`.
\* The code hands over the String read_line filled, line terminator included.
C1_SudoCommandIsEchoSecretPipeTypedLine ==
    (At("cmd", "run_cmd") /\ Top.arm = "sudo")
        => /\ bash_cmd = <<"e","c","h","o"," ">> \o password \o <<" ","|"," ">> \o Typed(line)
           /\ (password = <<"p","w">> /\ Typed(line) = <<"s","u","d","o"," ","y","u","m"," ","i","n","s","t","a","l","l"," ","-","y"," ","t","r","e","e">>)
                => bash_cmd = <<"e","c","h","o"," ","p","w"," ","|"," ","s","u","d","o"," ","y","u","m"," ","i","n","s","t","a","l","l"," ","-","y"," ","t","r","e","e">>

(* ------------------------------- C2 ------------------------------------ *)

\* C2: in git mode, for every directory d entered at the mode prompt and
\* every typed line c that is no git-mode keyword, the command handed to
\* run_cmd is exactly "cd " + d + " && " + c; `proj/repo` and `status` yield
\* exactly `cd proj/repo && status`.
\* The code appends the String read_line filled, line terminator included.
C2_GitCommandIsCdDirAndTypedLine ==
    (At("run_git", "run_cmd") /\ Top.arm = "git_cmd")
        => /\ bash_cmd
                = <<"c","d"," ">> \o Stripped(Top.directory) \o <<" ","&","&"," ">> \o Typed(line)
           /\ (Stripped(Top.directory) = <<"p","r","o","j","/","r","e","p","o">> /\ Typed(line) = <<"s","t","a","t","u","s">>)
                => bash_cmd = <<"c","d"," ","p","r","o","j","/","r","e","p","o"," ","&","&"," ","s","t","a","t","u","s">>

(* ------------------------------- C3 ------------------------------------ *)

\* The sql-mode keywords.
SqlKeywords == {<<"e","x","i","t">>, <<"d","a","t","a","b","a","s","e">>, <<"c","h","a","n","g","e">>, <<"c","l","e","a","r">>, <<"h","e","l","p">>}

\* C3: in sql mode, every typed query that is no sql-mode keyword is handed
\* to run_cmd as exactly
\*   echo <secret> | sudo -S mariadb -u root -p -e "USE <db>; <query>"
\* with the database name entered at the mode prompt and the query both
\* stripped of leading and trailing whitespace; database `mydb`, query
\* `SELECT 1;` and secret `pw` yield
\*   echo pw | sudo -S mariadb -u root -p -e "USE mydb; SELECT 1;"
C3_SqlCommand ==
    [][ (Dispatches("run_sql") /\ Stripped(line') \notin SqlKeywords)
          => /\ Top'.fn = "run_sql"
             /\ Top'.pc = "run_cmd"
             /\ Len(stack') = Len(stack)
             /\ bash_cmd' = <<"e","c","h","o"," ">> \o password
                              \o <<" ","|"," ","s","u","d","o"," ","-","S"," ","m","a","r","i","a","d","b"," ","-","u"," ","r","o","o","t"," ","-","p"," ","-","e"," ","\"","U","S","E"," ">>
                              \o Stripped(Top.database) \o <<";"," ">>
                              \o Stripped(line') \o <<"\"">>
             /\ (password = <<"p","w">> /\ Stripped(Top.database) = <<"m","y","d","b">>
                   /\ Stripped(line') = <<"S","E","L","E","C","T"," ","1",";">>)
                  => bash_cmd' =
                       <<"e","c","h","o"," ","p","w"," ","|"," ","s","u","d","o"," ","-","S"," ","m","a","r","i","a","d","b"," ","-","u"," ","r","o","o","t"," ","-","p"," ","-","e"," ","\"","U","S","E"," ","m","y","d","b",";"," ","S","E","L","E","C","T"," ","1",";","\"">>
      ]_vars

\* C3's case: the scenario's query is handed to run_cmd.
C3_Witness ==
    /\ At("run_sql", "run_cmd")
    /\ Top.arm = "sql_query"
    /\ password = <<"p","w">>
    /\ Top.database = <<"m","y","d","b","\n">>
    /\ line = <<"S","E","L","E","C","T"," ","1",";","\n">>
    /\ bash_cmd = <<"e","c","h","o"," ","p","w"," ","|"," ","s","u","d","o"," ","-","S"," ","m","a","r","i","a","d","b"," ","-","u"," ","r","o","o","t"," ","-","p"," ","-","e"," ","\"","U","S","E"," ","m","y","d","b",";"," ","S","E","L","E","C","T"," ","1",";","\"">>

(* ------------------------------- C4 ------------------------------------ *)

\* C4: in shell mode the branch taken for a line is decided by the line's
\* first whitespace-delimited token alone, whatever whitespace leads the line
\* or delimits the token: `sudo` runs the line with the secret injected,
\* `install`, `remove`, `clear`, `help` and `exit` run their branch, and any
\* other token runs the line as a plain command.
\* The code splits at the space character only, before it trims.
C4_ShellBranchByFirstToken ==
    [][ Dispatches("cmd")
          => LET tok == FirstToken(line') IN
             /\ tok = <<"s","u","d","o">>
                  => /\ Top'.pc = "run_cmd" /\ Top'.arm = "sudo"
                     /\ SubSeq(bash_cmd', 1, 5 + Len(password))
                          = <<"e","c","h","o"," ">> \o password
             /\ tok = <<"i","n","s","t","a","l","l">>
                  => Top'.pc = "msg_input" /\ Top'.arm = "install"
             /\ tok = <<"r","e","m","o","v","e">>
                  => Top'.pc = "msg_input" /\ Top'.arm = "remove"
             /\ tok = <<"c","l","e","a","r">>
                  => /\ stack' = stack
                     /\ \/ panic_msg' = "command was not executed"
                        \/ printed' \in {<<print_cmd_text(o)>> : o \in ClearOutputs}
             /\ tok = <<"h","e","l","p">>
                  => stack' = stack /\ printed' = << <<"cmd_help">> >>
             /\ tok = <<"e","x","i","t">>
                  => stack' = Pop
             /\ tok \notin {<<"s","u","d","o">>, <<"i","n","s","t","a","l","l">>, <<"r","e","m","o","v","e">>, <<"c","l","e","a","r">>, <<"h","e","l","p">>,
                            <<"e","x","i","t">>}
                  => Top'.pc = "run_cmd" /\ Top'.arm = "plain"
      ]_vars

(* ------------------------------- C5 ------------------------------------ *)

\* C5: in shell mode, every line classified as neither `sudo` nor a reserved
\* keyword is handed to run_cmd as the line with its leading and trailing
\* whitespace removed and otherwise unchanged: no secret, no prefix and no
\* suffix is added.
C5_PlainCommandIsStrippedLine ==
    [][ (Dispatches("cmd")
           /\ cmd_match(trim(splitn_first(line')))
                \notin {"sudo", "install", "remove", "clear", "help", "exit"})
          => /\ Top'.fn = "cmd"
             /\ Top'.pc = "run_cmd"
             /\ Len(stack') = Len(stack)
             /\ bash_cmd' = Stripped(line')
      ]_vars

\* C5's case: a line with whitespace on both sides is run as a plain command.
C5_Witness ==
    /\ At("cmd", "run_cmd")
    /\ Top.arm = "plain"
    /\ line = <<" "," ","l","s"," ","-","l"," ","\n">>
    /\ bash_cmd = <<"l","s"," ","-","l">>

(* ------------------------------- C6 ------------------------------------ *)

\* The top-level keywords.
TopKeywords ==
    {<<"c","m","d">>, <<"g","i","t">>, <<"s","q","l">>, <<"t","e","s","t">>, <<"c","l","e","a","r">>, <<"h","e","l","p">>, <<"e","x","i","t">>}

\* C6: at the top-level prompt a line that, trimmed, equals `cmd`, `git`,
\* `sql` or `test` enters that mode (its function is called on top of
\* main_loop), `clear` and `help` run their local action, and every other
\* line except `exit` prints the invalid-command notice, hands no command to
\* run_cmd, opens no mode and leaves main_loop at its prompt.
C6_TopLevelDispatch ==
    [][ Dispatches("main_loop")
          => LET p == Stripped(line') IN
             /\ p = <<"c","m","d">>
                  => stack' = Append(stack, Frame("cmd", "input", ""))
             /\ p = <<"g","i","t">>
                  => stack' = Append(stack, Frame("run_git", "msg_input", ""))
             /\ p = <<"s","q","l">>
                  => /\ Len(stack') = Len(stack) + 1
                     /\ Top'.fn = "run_sql"
             /\ p = <<"t","e","s","t">>
                  => stack' = Append(stack, Frame("run_unittests", "directory", ""))
             /\ p = <<"c","l","e","a","r">>
                  => /\ stack' = stack
                     /\ bash_cmd' = <<>>
                     /\ \/ panic_msg' = "command was not executed"
                        \/ printed' \in {<<print_cmd_text(o)>> : o \in ClearOutputs}
             /\ p = <<"h","e","l","p">>
                  => /\ stack' = stack
                     /\ status' = "running"
                     /\ bash_cmd' = <<>>
                     /\ printed' = << <<"helpers::help">> >>
             /\ p \notin TopKeywords
                  => /\ printed' = << <<"invalid command, run 'help' for commands">> >>
                     /\ bash_cmd' = <<>>
                     /\ output' = NoOutput
                     /\ stack' = stack
                     /\ status' = "running"
      ]_vars

\* C6's case: an unknown line was typed at the top level and answered by the
\* notice, with main_loop still at its prompt.
C6_Witness ==
    /\ At("main_loop", "input")
    /\ readBy = "main_loop"
    /\ line = <<"l","s"," ","-","l","\n">>
    /\ printed = << <<"invalid command, run 'help' for commands">> >>

(* ------------------------------- C7 ------------------------------------ *)

\* The panics of a read_line that returned Err.
ReadPanics == {"failed to read line", "failed to read input"}

\* The panics that are the machine's doing and not a line's: a read_line that
\* returned Err, a process that could not be spawned, a clock that failed.
MachinePanics ==
    ReadPanics \cup {"failed to execute remote command",
                     "command was not executed", "unable to get time"}

C8_ExitReturnsToTopLevel ==
    [][ \A fn \in {"cmd", "run_git", "run_sql"} :
          (Dispatches(fn) /\ Typed(line') = <<"e","x","i","t">>)
            => stack' = <<Frame("main_loop", "input", "")>>
      ]_vars

(* ------------------------------- C9 ------------------------------------ *)

\* C9, as claimed: each of the four mode interpreters, once entered, keeps
\* reading and dispatching lines until its `exit` keyword is typed; no mode
\* function returns without an `exit` line having been read in it.
\* It fails for test mode, which has no loop and no `exit` keyword.
C9_ModesReturnOnlyOnExit ==
    [][ (status = "running" /\ Len(stack') < Len(stack))
          => /\ Top.pc = "input"
             /\ readBy' = Top.fn
             /\ FirstToken(line') = <<"e","x","i","t">>
      ]_vars

\* C9, amended: the shell, git and sql interpreters, once entered, keep
\* reading and dispatching lines until their `exit` keyword is typed: their
\* functions return only in the step that read an `exit` line in them, and
\* after any other line the same function reads the next one. Test mode is
\* no loop: run_unittests prompts for its three values, runs the command
\* once, reports and returns to the top-level prompt with no `exit` line.
C9_LoopModesReturnOnlyOnExit ==
    [][ /\ (status = "running" /\ Len(stack') < Len(stack))
            => /\ Len(stack') = Len(stack) - 1
               /\ status' = "running"
               /\ \/ /\ Top.fn \in {"cmd", "run_git", "run_sql"}
                     /\ Top.pc = "input"
                     /\ readBy' = Top.fn
                     /\ FirstToken(line') = <<"e","x","i","t">>
                  \/ /\ Top.fn = "run_unittests"
                     /\ Top.pc = "output"
                     /\ stack' = <<Frame("main_loop", "input", "")>>
        /\ (status = "running" /\ Top.fn = "run_unittests")
            => /\ Top.pc # "input"
               /\ Len(stack') <= Len(stack)
               /\ (Top.pc = "output" /\ status' = "running")
                    => Len(stack') < Len(stack)
      ]_vars

\* C9's case: git mode was left through its `exit` line.
C9_Witness ==
    /\ At("main_loop", "input")
    /\ readBy = "run_git"
    /\ line = <<"e","x","i","t","\n">>

(* ------------------------------- C10 ----------------------------------- *)

\* The frame from which a mode loop dispatched the command whose Output has
\* come back: a frame of cmd, run_git or run_sql, the sql self-test counting
\* when `change` in the sql loop called it (a session lies below it).
FromModeLoop ==
    /\ status = "running"
    /\ Top.pc = "output"
    /\ Top.fn \in {"cmd", "run_git", "run_sql"}
    /\ Top.arm = "test_sql_connection" => Len(stack) > 2

\* The same mode and the same session state, at the mode's prompt.
SameSession ==
    /\ status' = "running"
    /\ Len(stack') = Len(stack)
    /\ \A i \in 1..(Len(stack) - 1) : stack'[i] = stack[i]
    /\ Top'.fn = Top.fn
    /\ Top'.directory = Top.directory
    /\ Top'.database = Top.database
    /\ Top'.pc = "input"

\* C10, as claimed: when a remote command dispatched from any mode loop
\* exits non-zero, the failure is only reported: the process goes on, in the
\* same mode with the same session state, and reads the next line at that
\* mode's prompt.
\* It fails for the self-test that `change` dispatches from the sql loop.
C10_FailureOnlyReported ==
    [][ (FromModeLoop /\ ~output.success /\ panic_msg' # "unable to get time")
          => SameSession
      ]_vars

\* C10, amended: when a remote command that the shell, git or sql loop built
\* from a typed line (a plain or `sudo` line, `install`, `remove`, a git
\* command, a sql query) exits non-zero, the failure is only reported (its
\* stderr is printed): the process goes on, in the same mode with the same
\* session state, and reads the next line at that mode's prompt. The sql
\* connectivity self-test is the exception: when it exits non-zero, on entry
\* or after `change`, the process panics.
C10_CommandFailureOnlyReported ==
    [][ /\ (FromModeLoop /\ Top.arm # "test_sql_connection" /\ ~output.success)
            => /\ SameSession
               /\ printed' = <<from_utf8_lossy(output.stderr)>>
               /\ exit_code' = 0
        /\ (status = "running" /\ Top.pc = "output"
              /\ Top.arm = "test_sql_connection" /\ ~output.success)
            => /\ status' = "panicked"
               /\ panic_msg' \in {"unable to connect to mariadb", "unable to get time"}
      ]_vars

\* C10's case: a git command failed, its stderr was printed, and the git loop
\* is back at its prompt with its directory.
C10_Witness ==
    /\ At("run_git", "input")
    /\ ~output.success
    /\ bash_cmd # <<>>
    /\ printed = <<from_utf8_lossy(output.stderr)>>
    /\ Top.directory = <<"p","r","o","j","/","r","e","p","o","\n">>

(* ------------------------------- C11 ----------------------------------- *)

\* A step of helpers::print_cmd on the Output of a command of shell, git or
\* sql mode.
Reports ==
    /\ status = "running"
    /\ Top.pc = "output"
    /\ Top.fn \in {"cmd", "run_git", "run_sql"}
    /\ Top.arm \in {"sudo", "plain", "install", "remove", "git_cmd", "sql_query"}

\* C11, as claimed: for a failed remote command of shell, git or sql mode
\* the remote stderr is printed when it is not empty and the remote stdout
\* when stderr is empty; for a successful command the remote stdout is
\* printed.
\* It fails: a failed command's stdout is never printed.
C11_FailurePrintsStderrOrElseStdout ==
    [][ Reports
          => printed' =
               << from_utf8_lossy(
                    IF output.success \/ output.stderr = <<>>
                    THEN output.stdout ELSE output.stderr) >>
      ]_vars

\* C11, amended: for every failed remote command of shell, git or sql mode
\* what is printed is the remote stderr, decoded as UTF-8 with every invalid
\* byte replaced by U+FFFD, also when stderr is empty: the stdout of a failed
\* command is not printed. For every successful command what is printed is
\* the remote stdout, decoded the same way, and its stderr is not printed.
C11_PrintsOneStreamByStatus ==
    [][ Reports
          => /\ output.success
                  => printed' = <<[i \in 1..Len(output.stdout) |->
                                    IF output.stdout[i] = "xFF" THEN "uFFFD"
                                    ELSE output.stdout[i]]>>
             /\ ~output.success
                  => printed' = <<[i \in 1..Len(output.stderr) |->
                                    IF output.stderr[i] = "xFF" THEN "uFFFD"
                                    ELSE output.stderr[i]]>>
      ]_vars

\* C11's case: a failed command with an empty stderr and a stdout that is not
\* empty was reported by an empty line.
C11_Witness ==
    /\ status = "running"
    /\ Top.fn \in {"cmd", "run_git", "run_sql"}
    /\ Top.pc = "input"
    /\ ~output.success
    /\ output.stderr = <<>>
    /\ output.stdout # <<>>
    /\ printed = << <<>> >>

(* ------------------------------- C12 ----------------------------------- *)

\* How far main has come: before test_connection, inside its run_cmd, at its
\* verdict, and in main_loop or a mode.
Startup ==
    CASE stack[1].fn = "main" /\ stack[1].pc = "start" -> 0
      [] stack[1].fn = "main" /\ stack[1].pc = "run_cmd" -> 1
      [] stack[1].fn = "main" /\ stack[1].pc = "output" -> 2
      [] OTHER -> 3

\* C12: the startup connectivity test runs exactly once, before the
\* top-level loop; when it fails (the transport cannot be spawned, or the
\* remote echo returns a non-success status) the process aborts before any
\* line is read and before any mode runs; the top-level prompt is reached
\* only after a connectivity test that succeeded.
C12_StartupConnectivityTest ==
    [][ /\ Startup' \in {Startup, Startup + 1}
        /\ Startup' # Startup => status = "running"
        /\ Startup < 3
            => /\ Len(stack) = 1
               /\ readBy = "none" /\ readBy' = "none"
               /\ line = <<>> /\ line' = <<>>
               /\ eof' = eof
        /\ (Startup = 1 \/ Startup' = 1)
            => bash_cmd' = <<"e","c","h","o"," ","t","e","s","t">>
        /\ (Startup = 2 /\ ~output.success)
            => /\ status' = "panicked"
               /\ Startup' = 2
        /\ (Startup = 1 /\ Startup' = 1) => status' = "panicked"
        /\ (Startup = 2 /\ Startup' = 3)
            => /\ output.success
               /\ status' = "running"
               /\ stack' = <<Frame("main_loop", "input", "")>>
      ]_vars

\* C12's case: the top-level prompt, reached from a test that succeeded, with
\* no line read yet.
C12_Witness ==
    /\ At("main_loop", "input")
    /\ readBy = "none"
    /\ output.success
    /\ bash_cmd = <<"e","c","h","o"," ","t","e","s","t">>
    /\ printed = << <<"Connected to EC2">> >>

(* ------------------------------- C13 ----------------------------------- *)

\* C13: whenever a line cannot be read from standard input (read_line
\* returns Err, or the input is exhausted), at the top level or in a mode,
\* the process terminates: it prints no notice, prompts no more and hands no
\* further command to run_cmd.
\* The code ends only on Err: at end of file read_line returns Ok(0) with an
\* empty String, which main_loop answers by the invalid-command notice and
\* cmd by running the empty command, time and again.
C13_UnreadableInputIsFatal ==
    (eof /\ line = <<>>) => status # "running"

(* ------------------------------- C14 ----------------------------------- *)

\* The frames that hold no git directory (every one but a git or a test
\* session) and those that hold no database name (every one but a sql
\* session).
HoldsNoDirectory(f) == f.fn \notin {"run_git", "run_unittests"} => f.directory = <<>>

HoldsNoDatabase(f) == f.fn # "run_sql" => f.database = <<>>

\* C14: session state never crosses mode boundaries. A session's directory
\* (database) is written by that session's own prompt and by nothing else;
\* a git command is built from the directory of the git session that runs
\* it and a sql command from the database of the sql session that runs it;
\* every activation of git or sql mode starts with no value and prompts.
C14_SessionStateStaysInItsSession ==
    [][ /\ \A i \in 1..Len(stack') :
            /\ HoldsNoDirectory(stack'[i])
            /\ HoldsNoDatabase(stack'[i])
            /\ i > Len(stack)
                 => /\ stack'[i].directory = <<>>
                    /\ stack'[i].database = <<>>
                    /\ stack'[i].fn = "run_git" => stack'[i].pc = "msg_input"
                    /\ stack'[i].fn = "run_sql"
                         => /\ stack'[i].pc = "run_cmd"
                            /\ stack'[i].arm = "test_sql_connection"
            /\ (i <= Len(stack) /\ stack'[i].directory # stack[i].directory)
                 => /\ i = Len(stack)
                    /\ Len(stack') = Len(stack)
                    /\ stack[i].fn \in {"run_git", "run_unittests"}
                    /\ stack[i].pc \in {"msg_input", "directory"}
                    /\ readBy' = "msg_input"
                    /\ stack'[i].directory = line'
            /\ (i <= Len(stack) /\ stack'[i].database # stack[i].database)
                 => /\ i = Len(stack)
                    /\ Len(stack') = Len(stack)
                    /\ stack[i].fn = "run_sql"
                    /\ stack[i].pc = "msg_input"
                    /\ readBy' = "msg_input"
                    /\ stack'[i].database = line'
        /\ (At("run_git", "msg_input") /\ status' = "running")
             => /\ Len(stack') = Len(stack)
                /\ readBy' = "msg_input"
                /\ Top'.directory = line'
        /\ (At("run_sql", "msg_input") /\ status' = "running")
             => /\ Len(stack') = Len(stack)
                /\ readBy' = "msg_input"
                /\ Top'.database = line'
        /\ (status' = "running" /\ Top'.pc = "run_cmd" /\ Top.pc # "run_cmd"
              /\ Top'.arm = "git_cmd")
             => /\ At("run_git", "input")
                /\ Len(stack') = Len(stack)
                /\ Top'.directory = Top.directory
                /\ bash_cmd' = <<"c","d"," ">> \o Stripped(Top.directory) \o <<" ","&","&"," ">>
                                 \o line'
        /\ (status' = "running" /\ Top'.pc = "run_cmd" /\ Top.pc # "run_cmd"
              /\ Top'.arm = "sql_query")
             => /\ At("run_sql", "input")
                /\ Len(stack') = Len(stack)
                /\ Top'.database = Top.database
                /\ bash_cmd' = <<"e","c","h","o"," ">> \o password
                                 \o <<" ","|"," ","s","u","d","o"," ","-","S"," ","m","a","r","i","a","d","b"," ","-","u"," ","r","o","o","t"," ","-","p"," ","-","e"," ","\"","U","S","E"," ">>
                                 \o Stripped(Top.database) \o <<";"," ">>
                                 \o Stripped(line') \o <<"\"">>
      ]_vars

\* C14's case: a git command of a nested session, built with the directory
\* of its own prompt while the session below holds another one.
C14_Witness ==
    /\ At("run_git", "run_cmd")
    /\ Len(stack) = 3
    /\ stack[2].fn = "run_git"
    /\ stack[2].directory = <<"p","r","o","j","/","r","e","p","o","\n">>
    /\ Top.directory = <<" ","d","2"," ","\n">>
    /\ bash_cmd = <<"c","d"," ","d","2"," ","&","&"," ","s","t","a","t","u","s","\n">>

(* ------------------------------- C15 ----------------------------------- *)

\* The loops that read command lines.
Loops == {"main_loop", "cmd", "run_git", "run_sql"}

\* The keywords that a loop serves locally.
LocalKeywords(fn) ==
    {<<"h","e","l","p">>, <<"c","l","e","a","r">>, <<"e","x","i","t">>}
        \cup (IF fn = "run_sql" THEN {<<"d","a","t","a","b","a","s","e">>} ELSE {})

\* A step that hands a command to run_cmd.
InvokesTransport == status' = "running" /\ Top'.pc = "run_cmd" /\ Top.pc # "run_cmd"

\* C15: every input line dispatched as a remote command causes exactly one
\* transport invocation and one outcome, success or failure, with no retry,
\* and nothing is read before that outcome is reported; a line that is the
\* keyword `help`, `clear` or `exit` (or `database` in sql mode) causes no
\* transport invocation.
C15_OneInvocationOneOutcome ==
    [][ /\ (status = "running" /\ Top.fn \in Loops /\ Top.pc = "input"
              /\ InvokesTransport /\ Len(stack') = Len(stack))
             => /\ readBy' = Top.fn
                /\ output' = NoOutput
        /\ (status = "running" /\ Top.pc = "run_cmd")
             => /\ line' = line /\ eof' = eof /\ readBy' = readBy
                /\ bash_cmd' = bash_cmd
                /\ \/ status' = "panicked" /\ stack' = stack
                   \/ /\ status' = "running"
                      /\ stack' = [stack EXCEPT ![Len(stack)].pc = "output"]
                      /\ output' \in Outputs
        /\ (status = "running" /\ Top.pc = "output")
             => /\ line' = line /\ eof' = eof /\ readBy' = readBy
                /\ bash_cmd' = bash_cmd /\ output' = output
                /\ ~InvokesTransport
                /\ Top'.pc # "run_cmd"
                /\ (Top.fn \in Loops /\ Top.arm # "test_sql_connection")
                     => /\ status' = "running"
                        /\ stack' = [stack EXCEPT ![Len(stack)].pc = "input",
                                                  ![Len(stack)].arm = ""]
                        /\ printed' # <<>>
        /\ \A fn \in Loops :
            (Dispatches(fn) /\ Typed(line') \in LocalKeywords(fn))
                => /\ ~InvokesTransport
                   /\ Top'.pc # "run_cmd"
                   /\ bash_cmd' = <<>>
      ]_vars

\* C15's case: a git command failed once, its outcome was reported, and the
\* loop is back at its prompt with the same line.
C15_Witness ==
    /\ At("run_git", "input")
    /\ readBy = "run_git"
    /\ line = <<"s","t","a","t","u","s","\n">>
    /\ bash_cmd = <<"c","d"," ","p","r","o","j","/","r","e","p","o"," ","&","&"," ","s","t","a","t","u","s","\n">>
    /\ ~output.success
    /\ printed = << <<"e","r","r">> >>

(* ------------------------------- C16 ----------------------------------- *)

\* The command of the database connectivity self-test.
SelfTest == <<"e","c","h","o"," ">> \o password \o <<" ","|"," ","s","u","d","o"," ","-","S"," ","m","a","r","i","a","d","b"," ","-","u"," ","r","o","o","t"," ","-","p">>

\* C16: every entry into sql mode, by `sql` at the top level and by `change`
\* in sql mode alike, first runs the database connectivity self-test; the
\* database name is prompted for only after the self-test succeeded; when it
\* fails the whole process aborts, and no prompt follows.
C16_SqlEntryRunsSelfTestFirst ==
    [][ /\ (Dispatches("main_loop") /\ Stripped(line') = <<"s","q","l">>)
             => /\ Len(stack') = Len(stack) + 1
                /\ Top'.fn = "run_sql"
        /\ (Dispatches("run_sql") /\ Stripped(line') = <<"c","h","a","n","g","e">>)
             => /\ Len(stack') = Len(stack) + 1
                /\ Top'.fn = "run_sql"
        /\ (Len(stack') > Len(stack) /\ Top'.fn = "run_sql")
             => /\ Top.fn \in {"main_loop", "run_sql"}
                /\ Top'.pc = "run_cmd"
                /\ Top'.arm = "test_sql_connection"
                /\ bash_cmd' = SelfTest
                /\ status' = "running"
        /\ (status' = "running" /\ Top'.fn = "run_sql"
              /\ Top'.pc = "msg_input")
             => /\ At("run_sql", "output")
                /\ Top.arm = "test_sql_connection"
                /\ bash_cmd = SelfTest
                /\ output.success
                /\ Len(stack') = Len(stack)
        /\ (At("run_sql", "output") /\ Top.arm = "test_sql_connection"
              /\ ~output.success)
             => /\ status' = "panicked"
                /\ exit_code' = 101
                /\ stack' = stack
                /\ line' = line
        /\ status = "panicked" => UNCHANGED vars
      ]_vars

\* C16's case: sql mode entered again by `change`, its self-test succeeded,
\* and the Database prompt is next.
C16_Witness ==
    /\ At("run_sql", "msg_input")
    /\ Len(stack) = 3
    /\ stack[2].fn = "run_sql"
    /\ Typed(line) = <<"c","h","a","n","g","e">>
    /\ bash_cmd = SelfTest
    /\ output.success
    /\ printed = << <<"Connected to mariadb">> >>

(* ------------------------------- C17 ----------------------------------- *)

\* C17: in shell mode `install` (`remove`) prompts for a package token p and
\* hands run_cmd exactly `echo <secret> | sudo yum install -y p`
\* (`echo <secret> | sudo yum remove -y p`), where p is the token the operator
\* typed at the prompt and nothing follows it.
\* The code interpolates the String msg_input returns, line terminator
\* included.
C17_PackageCommandIsExact ==
    /\ (At("cmd", "run_cmd") /\ Top.arm = "install")
         => bash_cmd = <<"e","c","h","o"," ">> \o password \o <<" ","|"," ","s","u","d","o"," ","y","u","m"," ","i","n","s","t","a","l","l"," ","-","y"," ">>
                         \o Typed(line)
    /\ (At("cmd", "run_cmd") /\ Top.arm = "remove")
         => bash_cmd = <<"e","c","h","o"," ">> \o password \o <<" ","|"," ","s","u","d","o"," ","y","u","m"," ","r","e","m","o","v","e"," ","-","y"," ">>
                         \o Typed(line)

(* ------------------------------- C18 ----------------------------------- *)

\* The captured streams of an Output that hold something, decoded.
CapturedText(o) ==
    {from_utf8_lossy(s) : s \in {o.stdout, o.stderr} \ {<<>>}}

\* The items of a sequence.
Items(s) == {s[i] : i \in 1..Len(s)}

\* C18, as claimed: for both outcomes test mode reports the elapsed whole
\* seconds together with the run's full captured output, stdout and stderr,
\* so that no captured output is dropped.
\* It fails: one stream is printed, chosen by the exit status.
C18_ReportsFullCapturedOutput ==
    [][ At("run_unittests", "output")
          => CapturedText(output) \subseteq Items(printed')
      ]_vars

\* C18, amended: test mode builds
\*   cd <dir> && source <venv>/bin/activate && python3 -m unittest discover <tests>
\* from the three prompted values, each trimmed, runs it once, and reports
\* the elapsed whole seconds together with one captured stream: the stdout
\* of a run that succeeded (its stderr is dropped) and the stderr of a run
\* that failed (its stdout is dropped); then the top-level prompt is next.
C18_ReportsSecondsAndOneStream ==
    [][ /\ (At("run_unittests", "tests") /\ status' = "running")
             => /\ Top'.pc = "run_cmd"
                /\ Len(stack') = Len(stack)
                /\ bash_cmd' = <<"c","d"," ">> \o Stripped(Top.directory)
                                 \o <<" ","&","&"," ","s","o","u","r","c","e"," ">> \o Stripped(Top.venv)
                                 \o <<"/","b","i","n","/","a","c","t","i","v","a","t","e"," ","&","&"," ","p","y","t","h","o","n","3"," ","-","m"," ","u","n","i","t","t","e","s","t"," ","d","i","s","c","o","v","e","r"," ">>
                                 \o Stripped(line')
        /\ (At("run_unittests", "run_cmd") /\ status' = "running")
             => /\ Top'.pc = "output"
                /\ Len(stack') = Len(stack)
                /\ bash_cmd' = bash_cmd
        /\ At("run_unittests", "output")
             => /\ status' = "running"
                /\ stack' = SubSeq(stack, 1, Len(stack) - 1)
                /\ Top'.fn = "main_loop"
                /\ Top'.pc = "input"
                /\ \E secs \in 0..MaxSecs :
                    printed' =
                        IF output.success
                        THEN << <<"All tests passed in ", ToString(secs), "s">>,
                                from_utf8_lossy(output.stdout) >>
                        ELSE << <<"Tests failed after ", ToString(secs), "s">>,
                                from_utf8_lossy(output.stderr) >>
      ]_vars

\* C18's case: a run that succeeded and wrote to both streams was reported
\* with its seconds and its stdout.
C18_Witness ==
    /\ At("main_loop", "input")
    /\ readBy = "msg_input"
    /\ bash_cmd = <<"c","d"," ","p","r","o","j","/","r","e","p","o"," ","&","&"," ","s","o","u","r","c","e"," ","d","2","/","b","i","n","/","a","c","t","i","v","a","t","e"," ","&","&"," ","p","y","t","h","o","n","3"," ","-","m"," ","u","n","i","t","t","e","s","t"," ","d","i","s","c","o","v","e","r"," ","m","y","d","b">>
    /\ output.success
    /\ output.stderr = <<"w","a","r","n">>
    /\ printed = << <<"All tests passed in ", "1", "s">>, <<"o", "uFFFD">> >>

(* ------------------------------- C19 ----------------------------------- *)

\* The modes whose `change` opens a session inside the current one.
Nesting == {"run_git", "run_sql"}

Contains(s, sub) ==
    \E i \in 0..(Len(s) - Len(sub)) : SubSeq(s, i + 1, i + Len(sub)) = sub

\* s begins with pre.
BeginsWith(s, pre) == Len(s) >= Len(pre) /\ SubSeq(s, 1, Len(pre)) = pre

\* The command forms that are given the secret, and the ones that are not.
Privileged == {"sudo", "install", "remove", "sql_query", "test_sql_connection"}

Unprivileged == {"git_cmd", "test_cmd", "plain", "test_connection"}

\* What the operator typed for the command that is being built.
TypedForCommand == {line, Top.directory, Top.venv, Top.tests}

\* C20: the secret is interpolated only into privileged command forms. A
\* command built in git mode, in test mode or as a plain shell-mode command
\* is made of what the operator typed and of fixed text, so it contains the
\* secret only if the operator typed it; the commands of shell-mode `sudo`,
\* `install` and `remove` lines and of sql-mode queries and self-tests, and
\* only they, begin with `echo <secret> |`.
C20_SecretOnlyInPrivilegedCommands ==
    (status = "running" /\ Top.pc = "run_cmd")
        => /\ Top.arm \in Privileged \cup Unprivileged
           /\ Top.arm \in Privileged
                => BeginsWith(bash_cmd, <<"e","c","h","o"," ">> \o password \o <<" ","|"," ">>)
           /\ Top.arm \in Unprivileged
                => /\ Contains(bash_cmd, password)
                        => \E t \in TypedForCommand : Contains(t, password)
                   /\ BeginsWith(bash_cmd, <<"e","c","h","o"," ">> \o password \o <<" ","|">>)
                        => BeginsWith(Stripped(line),
                                      <<"e","c","h","o"," ">> \o password \o <<" ","|">>)
           /\ Top.arm = "git_cmd"
                => bash_cmd = <<"c","d"," ">> \o Stripped(Top.directory) \o <<" ","&","&"," ">>
                                \o line
           /\ Top.arm = "plain" => bash_cmd = Stripped(line)
           /\ Top.arm = "test_connection" => bash_cmd = <<"e","c","h","o"," ","t","e","s","t">>
           /\ Top.arm = "test_cmd"
                => bash_cmd = <<"c","d"," ">> \o Stripped(Top.directory)
                                \o <<" ","&","&"," ","s","o","u","r","c","e"," ">> \o Stripped(Top.venv)
                                \o <<"/","b","i","n","/","a","c","t","i","v","a","t","e"," ","&","&"," ","p","y","t","h","o","n","3"," ","-","m"," ","u","n","i","t","t","e","s","t"," ","d","i","s","c","o","v","e","r"," ">>
                                \o Stripped(Top.tests)

\* C20's case: a plain shell-mode command holds the secret, because the
\* operator typed it.
C20_Witness ==
    /\ At("cmd", "run_cmd")
    /\ Top.arm = "plain"
    /\ password = <<"s","3">>
    /\ line = <<"e","c","h","o"," ","s","3","\n">>
    /\ bash_cmd = <<"e","c","h","o"," ","s","3">>

(* ------------------------------- C21 ----------------------------------- *)

\* The first space-delimited token of a line: what stands before its first
\* space character (the whole line when it has none), without the blanks
\* and the line terminator around it.
SpaceToken(l) ==
    LET spaces == {i \in 1..Len(l) : l[i] = " "} IN
    IF spaces = {} THEN Stripped(l)
    ELSE LET a == CHOOSE i \in spaces : \A j \in spaces : i <= j
         IN  Stripped(SubSeq(l, 1, a - 1))

\* The keywords of shell mode and of git mode.
CmdKeywords ==
    {<<"s","u","d","o">>, <<"i","n","s","t","a","l","l">>, <<"r","e","m","o","v","e">>, <<"c","l","e","a","r">>, <<"h","e","l","p">>, <<"e","x","i","t">>}

GitKeywords == {<<"e","x","i","t">>, <<"c","h","a","n","g","e">>, <<"c","l","e","a","r">>, <<"h","e","l","p">>}

\* The keywords of a mode whose loop matches the whole line.
WholeLineKeywords(fn) == IF fn = "run_sql" THEN SqlKeywords ELSE GitKeywords

====
